---- MODULE Spec2Model ----
(***************************************************************************)
(* Viral Daily: the viral-score calculator, the three platform fetchers,   *)
(* the aggregator and the GET /api/videos handler of backend/server.py.    *)
(*                                                                         *)
(* Numbers.  Python floats are modelled in fixed point: a viral score is   *)
(* an integer number of thousandths (100.0 is 100000), truncated towards   *)
(* zero after each operation of the source.                                *)
(***************************************************************************)
EXTENDS Integers, Naturals, Sequences, FiniteSets, TLC

VARIABLES
    \* --- viral-score calculator (SpecScore) ---
    views,        \* argument views of the last calculate_viral_score call
    likes,        \* argument likes
    days_old,     \* argument days_old
    viral_score,  \* value returned by the last call (0 before any call)
    prev,         \* arguments and result of the call before the last one
    op,           \* how the last call's arguments were derived from prev
    \* --- GET /api/videos (Spec) ---
    pc,           \* "idle", "fetching" (fetch coroutines outstanding), "done"
    request,      \* the query: platform, limit, user
    seed,         \* state of the process-wide random generator
    limit,        \* get_viral_videos' local limit after the plan cap
    agg_limit,    \* get_aggregated_viral_videos' local limit after its cap
    tasks,        \* per platform: the fetch coroutine launched for this request
    calls,        \* per platform: number of times its fetcher was invoked
    completed,    \* the platforms whose fetch coroutine has ended, in that order
    response,     \* the HTTP response
    \* --- GET /api/videos of the servers without fetchers (SpecMock) ---
    variant,      \* the server module that handled the request
    mock_request, \* the query: platform, limit, the random seed, the bearer token's length
    mock_response, \* the HTTP response
    \* --- ad injection into a list of videos (SpecAds) ---
    ad_user,      \* the user inject_video_ads was called for ("none" before)
    ad_videos,    \* its argument videos
    ad_content,   \* the list it returned
    \* --- one call of one fetcher (SpecFetch) ---
    fetched_by,   \* the fetcher that was called ("none" before the call)
    fetch_count,  \* its argument limit
    fetch_live,   \* what its live source did
    fetched,      \* the list it returned
    \* --- PaymentService.create_payment_intent (SpecPay) ---
    pay_request,  \* the last call: the plan get_plan gave, billing cycle, database up
    pay_response, \* what the call returned or raised
    payment_transactions, \* the payment_transactions collection
    \* --- VideoAggregator.parse_duration (SpecDuration) ---
    duration,     \* the argument of the last parse_duration call, as characters
    duration_display, \* the string it returned, as characters (<<"?">> before a call)
    \* --- TelegramNotificationService (SpecTelegram) ---
    telegram_subscriptions, \* the collection: per chat id its document, if there is one
    tg_handler,   \* per chat: where the _handle_message call for its message stands
    tg_last,      \* per chat: the last of /subscribe and /unsubscribe received from it
    \* --- concurrent TikTokService.fetch_trending_videos calls (SpecTikTokInit) ---
    api,          \* self.api: "none", "created" (TikTokApi() without sessions), "ready"
    api_call,     \* per caller: where its fetch_trending_videos call stands
    api_used,     \* per caller: the state of self.api when its call last read trending
    \* --- POST /api/emails/subscribe requests (SpecSubscribe) ---
    db_users,       \* db.users: the documents in insertion order
    sub_request,    \* per request: its body and where its handler stands
    sub_user_data   \* per request: what its find_one returned

scoreVars == <<views, likes, days_old, viral_score, prev, op>>

reqVars == <<pc, request, seed, limit, agg_limit, tasks, calls, completed, response>>

mockVars == <<variant, mock_request, mock_response>>

adVars == <<ad_user, ad_videos, ad_content>>

fetchVars == <<fetched_by, fetch_count, fetch_live, fetched>>

payVars == <<pay_request, pay_response, payment_transactions>>

durVars == <<duration, duration_display>>

tgVars == <<telegram_subscriptions, tg_handler, tg_last>>

apiVars == <<api, api_call, api_used>>

subVars == <<db_users, sub_request, sub_user_data>>

vars == <<scoreVars, reqVars, mockVars, adVars, fetchVars, payVars, durVars, tgVars, apiVars, subVars>>

----------------------------------------------------------------------------
(* Bounds of the calculator's inputs.                                      *)
MaxViews == 12
MaxLikes == 6
MaxDays  == 20
MaxScale == 3

(* One score unit (1.0) in thousandths.                                    *)
ScoreUnit == 1000

(* The cap of calculate_viral_score, in score units.                       *)
ScoreCap == 100

Min(a, b) == IF a <= b THEN a ELSE b
Max(a, b) == IF a >= b THEN a ELSE b

(* math.log10 on the integers 1..64: Log10E4[v] = floor(10000 * log10(v)). *)
Log10E4 ==
    << 0, 3010, 4771, 6020, 6989, 7781, 8450, 9030,
       9542, 10000, 10413, 10791, 11139, 11461, 11760, 12041,
       12304, 12552, 12787, 13010, 13222, 13424, 13617, 13802,
       13979, 14149, 14313, 14471, 14623, 14771, 14913, 15051,
       15185, 15314, 15440, 15563, 15682, 15797, 15910, 16020,
       16127, 16232, 16334, 16434, 16532, 16627, 16720, 16812,
       16901, 16989, 17075, 17160, 17242, 17323, 17403, 17481,
       17558, 17634, 17708, 17781, 17853, 17923, 17993, 18061 >>

(* view_score = math.log10(max(views, 1)) * 10, in thousandths.            *)
view_score(v) == (Log10E4[Max(v, 1)] * 10 * ScoreUnit) \div 10000

(* engagement_ratio = (likes / views) if likes and views > 0 else 0;       *)
(* engagement_score = engagement_ratio * 100, in thousandths.              *)
engagement_score(v, l) ==
    IF l # 0 /\ v > 0 THEN (l * 100 * ScoreUnit) \div v ELSE 0

(* recency_multiplier = max(1.0, 10.0 - days_old * 0.5), in tenths.        *)
recency_multiplier(d) == Max(10, 100 - d * 5)

(* return min(viral_score, 100.0)                                          *)
cap_score(s) == Min(s, ScoreCap * ScoreUnit)

(* A cap that wraps around instead of clamping.                            *)
calculate_viral_score_wraps(v, l, d) ==
    IF v = 0 THEN 0
    ELSE (((view_score(v) + engagement_score(v, l)) * recency_multiplier(d)) \div 10)
             % (ScoreCap * ScoreUnit)

(* The result is returned without the cap.                                 *)
calculate_viral_score_uncapped(v, l, d) ==
    IF v = 0 THEN 0
    ELSE ((view_score(v) + engagement_score(v, l)) * recency_multiplier(d)) \div 10

(* The recency term is added to the age instead of subtracted.             *)
calculate_viral_score_ageup(v, l, d) ==
    IF v = 0 THEN 0
    ELSE cap_score(((view_score(v) + engagement_score(v, l)) * Max(10, 10 + d * 5)) \div 10)

(* The views == 0 guard is missing: the engagement term of an unviewed     *)
(* video counts its likes as if it had one view.                           *)
calculate_viral_score_noguard(v, l, d) ==
    cap_score(((view_score(v) + engagement_score(Max(v, 1), l)) * recency_multiplier(d)) \div 10)

(* VideoAggregator.calculate_viral_score(views, likes, days_old).          *)
calculate_viral_score(v, l, d) ==
    IF v = 0 THEN 0
    ELSE cap_score(((view_score(v) + engagement_score(v, l)) * recency_multiplier(d)) \div 10)

----------------------------------------------------------------------------
(* Data of the video pipeline.                                             *)

(* models.Platform members served by the handler; NoPlatform is the        *)
(* default platform=None of the query.                                     *)
Platforms == {"youtube", "tiktok", "twitter"}
NoPlatform == "none"

(* The order of the coroutines in the aggregator's task list.              *)
TaskOrder == <<"youtube", "tiktok", "twitter">>

(* Depends(get_current_user): None (anonymous) or a user of some tier.     *)
Users == {"anonymous", "free", "pro", "business"}

(* user.subscription_tier if user else SubscriptionTier.FREE               *)
TierOf(user) == IF user = "anonymous" THEN "free" ELSE user

(* Values of the query parameter limit: int = 10 (any integer is accepted). *)
Limits == {-1, 0, 1, 10, 17, 45, 101}

(* Seeds of the random generator.                                          *)
MaxSeed == 1

(* subscription_plans.get_plan(tier).max_videos_per_day; -1 is unlimited.  *)
FreeMaxVideosPerDay == 40
ProMaxVideosPerDay == 100
BusinessMaxVideosPerDay == -1

get_plan(tier) ==
    CASE tier = "free" -> [max_videos_per_day |-> FreeMaxVideosPerDay, has_ads |-> TRUE]
      [] tier = "pro" -> [max_videos_per_day |-> ProMaxVideosPerDay, has_ads |-> FALSE]
      [] tier = "business" -> [max_videos_per_day |-> BusinessMaxVideosPerDay, has_ads |-> FALSE]

(* A ViralVideo: its platform, its viral_score in thousandths, whether it  *)
(* was normalized from live data or generated as fallback data, and its    *)
(* position in the data it was built from.                                 *)
Video(p, score, src, n) ==
    [platform |-> p, viral_score |-> score, source |-> src, n |-> n]

(* s[:n] of Python.                                                        *)
PySlice(s, n) ==
    IF n >= 0 THEN SubSeq(s, 1, Min(n, Len(s)))
    ELSE SubSeq(s, 1, Max(Len(s) + n, 0))

(* list.sort(key=lambda x: x.viral_score, reverse=True): a stable sort,    *)
(* equal scores keep their order.                                          *)
RECURSIVE InsertDesc(_, _)
InsertDesc(s, x) ==
    IF s = <<>> THEN <<x>>
    ELSE IF Head(s).viral_score >= x.viral_score
         THEN <<Head(s)>> \o InsertDesc(Tail(s), x)
         ELSE <<x>> \o s

(* The first k elements of s, sorted. Each prefix is bound to its value    *)
(* before the next element is inserted, so that it is computed once.       *)
RECURSIVE SortFirst(_, _)
SortFirst(s, k) ==
    IF k = 0 THEN <<>>
    ELSE CHOOSE r \in {InsertDesc(t, s[k]) : t \in {SortFirst(s, k - 1)}} : TRUE

SortDesc(s) == CHOOSE r \in {SortFirst(t, Len(t)) : t \in {s}} : TRUE

(* The sort is left out.                                                   *)
SortByViralScore_unsorted(s) == s

(* all_videos.sort(...) / videos.sort(...)                                 *)
SortByViralScore(s) == SortDesc(s)

(* random.uniform(lo, hi) for the i-th record of a fallback list.          *)
RandomUniform(lo, hi, sd, i) ==
    (lo + ((sd * 5 + i * 3) % (hi - lo + 1))) * ScoreUnit

(* What a fetch coroutine ends with: a list, or an exception.              *)
Returned(videos) == [raised |-> FALSE, videos |-> videos]
Raised == [raised |-> TRUE, videos |-> <<>>]

(*** YouTube ***)

YouTubeMockLo == 85
YouTubeMockHi == 95

(* _get_youtube_mock_data(limit): one record per i in range(limit).        *)
get_youtube_mock_data(n, sd) ==
    IF n <= 0 THEN <<>>
    ELSE [i \in 1..n |->
            Video("youtube", RandomUniform(YouTubeMockLo, YouTubeMockHi, sd, i), "mock", i)]

(* Items of a videos().list response: well-formed with their statistics   *)
(* and age, or malformed (processing the item raises).                     *)
YtBad == [ok |-> FALSE, views |-> 0, likes |-> 0, days_old |-> 0]
YtA == [ok |-> TRUE, views |-> 50, likes |-> 1, days_old |-> 19]
YtB == [ok |-> TRUE, views |-> 20, likes |-> 10, days_old |-> 19]
YtC == [ok |-> TRUE, views |-> 0, likes |-> 0, days_old |-> 2]

(* What the live source can do in one call: no API key or no client        *)
(* (get_youtube_service returns None), execute() raises, or a response.    *)
YouTubeLive ==
    {[kind |-> "no_key", items |-> <<>>], [kind |-> "error", items |-> <<>>]}
    \cup {[kind |-> "items", items |-> r] :
            r \in {<<>>, <<YtBad>>, <<YtBad, YtBad>>, <<YtA, YtB>>,
                   <<YtB, YtBad, YtA>>, <<YtC, YtB, YtA>>}}

(* The loop over trending_response['items']: a malformed item is logged    *)
(* and skipped.                                                            *)
RECURSIVE NormalizeYouTube(_, _)
NormalizeYouTube(items, n) ==
    IF n > Len(items) THEN <<>>
    ELSE IF items[n].ok
         THEN <<Video("youtube",
                      calculate_viral_score(items[n].views, items[n].likes, items[n].days_old),
                      "live", n)>> \o NormalizeYouTube(items, n + 1)
         ELSE NormalizeYouTube(items, n + 1)

(* The outer except clauses are missing: a failing execute() escapes.      *)
fetch_youtube_viral_videos_uncaught(n, live, sd) ==
    IF live.kind = "no_key" THEN Returned(get_youtube_mock_data(n, sd))
    ELSE IF live.kind = "error" THEN Raised
    ELSE Returned(PySlice(SortByViralScore(NormalizeYouTube(live.items, 1)), n))

(* VideoAggregator.fetch_youtube_viral_videos(limit).                      *)
fetch_youtube_viral_videos(n, live, sd) ==
    IF live.kind = "no_key" THEN Returned(get_youtube_mock_data(n, sd))
    ELSE IF live.kind = "error" THEN Returned(get_youtube_mock_data(n, sd))
    ELSE Returned(PySlice(SortByViralScore(NormalizeYouTube(live.items, 1)), n))

(*** TikTok ***)

TikTokMockLo == 82
TikTokMockHi == 92

(* get_mock_tiktok_data(limit).                                            *)
get_mock_tiktok_data(n, sd) ==
    IF n <= 0 THEN <<>>
    ELSE [i \in 1..n |->
            Video("tiktok", RandomUniform(TikTokMockLo, TikTokMockHi, sd, i), "mock", i)]

(* The module-level tiktok_service is None and is never assigned, so the   *)
(* live branch of fetch_tiktok_viral_videos is not taken.                  *)
TikTokLive == {[kind |-> "disabled", items |-> <<>>]}

(* VideoAggregator.fetch_tiktok_viral_videos(limit).                       *)
fetch_tiktok_viral_videos(n, live, sd) == Returned(get_mock_tiktok_data(n, sd))

(*** Twitter ***)

TwitterMockLo == 75
TwitterMockHi == 88

(* _get_twitter_mock_data(limit).                                          *)
get_twitter_mock_data(n, sd) ==
    IF n <= 0 THEN <<>>
    ELSE [i \in 1..n |->
            Video("twitter", RandomUniform(TwitterMockLo, TwitterMockHi, sd, i), "mock", i)]

(* Tweets of a search_recent_tweets response: with public_metrics, or      *)
(* malformed (processing the tweet raises).                                *)
TwBad == [ok |-> FALSE, likes |-> 0, retweets |-> 0, replies |-> 0]
TwLow == [ok |-> TRUE, likes |-> 5000, retweets |-> 0, replies |-> 0]
TwMid == [ok |-> TRUE, likes |-> 50000, retweets |-> 1000, replies |-> 500]
TwTop == [ok |-> TRUE, likes |-> 400000, retweets |-> 9000, replies |-> 100]

(* No bearer token, the import or the API call raises, no data, or data.   *)
TwitterLive ==
    {[kind |-> "no_token", items |-> <<>>], [kind |-> "error", items |-> <<>>],
     [kind |-> "tweets", items |-> <<>>]}
    \cup {[kind |-> "tweets", items |-> r] :
            r \in {<<TwBad>>, <<TwBad, TwBad>>, <<TwLow, TwTop>>,
                   <<TwMid, TwBad, TwLow>>, <<TwTop, TwMid, TwLow>>}}

TwitterScoreMin == 10
TwitterScoreMax == 90

(* engagement_score = likes + retweets * 3 + replies * 2;                  *)
(* viral_score = min(90.0, max(10.0, engagement_score / 1000))             *)
twitter_viral_score(t) ==
    Min(TwitterScoreMax * ScoreUnit,
        Max(TwitterScoreMin * ScoreUnit,
            ((t.likes + t.retweets * 3 + t.replies * 2) * ScoreUnit) \div 1000))

(* The loop over tweets.data[:limit]: a malformed tweet is logged and      *)
(* skipped.                                                                *)
RECURSIVE NormalizeTwitter(_, _)
NormalizeTwitter(items, n) ==
    IF n > Len(items) THEN <<>>
    ELSE IF items[n].ok
         THEN <<Video("twitter", twitter_viral_score(items[n]), "live", n)>>
                  \o NormalizeTwitter(items, n + 1)
         ELSE NormalizeTwitter(items, n + 1)

(* VideoAggregator.fetch_twitter_viral_videos(limit).                      *)
fetch_twitter_viral_videos(n, live, sd) ==
    IF live.kind = "no_token" THEN Returned(get_twitter_mock_data(n, sd))
    ELSE IF live.kind = "error" THEN Returned(get_twitter_mock_data(n, sd))
    ELSE IF live.items = <<>> THEN Returned(get_twitter_mock_data(n, sd))
    ELSE Returned(NormalizeTwitter(PySlice(live.items, n), 1))

(*** The aggregator ***)

MinVideosPerPlatform == 5

(* The tier cap at the head of get_aggregated_viral_videos(limit, user).   *)
AggregatorLimit(n, user) ==
    IF user # "anonymous"
    THEN IF get_plan(TierOf(user)).max_videos_per_day > 0
         THEN Min(n, get_plan(TierOf(user)).max_videos_per_day)
         ELSE n
    ELSE Min(n, get_plan("free").max_videos_per_day)

(* The floor of 5 per platform is left out.                                *)
videos_per_platform_nofloor(n) == n \div 3

(* videos_per_platform = max(limit // 3, 5)                                *)
videos_per_platform(n) == Max(n \div 3, MinVideosPerPlatform)

(* The loop over results: a list is appended, anything else is logged.     *)
RECURSIVE ExtendAll(_, _)
ExtendAll(results, n) ==
    IF n > Len(results) THEN <<>>
    ELSE (IF results[n].raised THEN <<>> ELSE results[n].videos)
             \o ExtendAll(results, n + 1)

(* asyncio.gather without return_exceptions=True: the first exception of   *)
(* a task is raised in the aggregator.                                     *)
Aggregate_propagating(results, n) ==
    IF \E i \in 1..Len(results) : results[i].raised THEN Raised
    ELSE Returned(PySlice(SortByViralScore(ExtendAll(results, 1)), n))

(* The tail of get_aggregated_viral_videos: asyncio.gather with            *)
(* return_exceptions=True, merge, sort, all_videos[:limit].                *)
Aggregate(results, n) ==
    Returned(PySlice(SortByViralScore(ExtendAll(results, 1)), n))

(*** The handler ***)

(* The plan's cap is ignored.                                              *)
HandlerLimit_uncapped(n, user) == n

(* max_limit = plan cap if it is > 0 else limit; limit = min(limit, max_limit) *)
HandlerLimit(n, user) ==
    LET cap == get_plan(TierOf(user)).max_videos_per_day
        max_limit == IF cap > 0 THEN cap ELSE n
    IN  Min(n, max_limit)

(* Every platform is fetched whatever the filter says.                     *)
Dispatch_all(platform) == Platforms

(* if platform: the one fetcher of that platform; else: the aggregator,    *)
(* which launches the three of them.                                       *)
Dispatch(platform) == IF platform # NoPlatform THEN {platform} ELSE Platforms

NoTask == [state |-> "idle", count |-> 0,
           live |-> [kind |-> "none", items |-> <<>>], result |-> <<>>]

NoRequest == [platform |-> NoPlatform, limit |-> 0, user |-> "anonymous"]

NoResponse == [status |-> 0, videos |-> <<>>, total |-> 0, platform |-> NoPlatform,
               has_ads |-> FALSE, user_tier |-> "free"]

(* VideoResponse(videos, total, platform, date, has_ads, user_tier), HTTP 200 *)
VideoResponse(videos, platform, user) ==
    [status |-> 200, videos |-> videos, total |-> Len(videos), platform |-> platform,
     has_ads |-> get_plan(TierOf(user)).has_ads, user_tier |-> TierOf(user)]

(* raise HTTPException(status_code=500, detail="Error fetching viral videos") *)
HTTPException500 ==
    [status |-> 500, videos |-> <<>>, total |-> 0, platform |-> NoPlatform,
     has_ads |-> FALSE, user_tier |-> "free"]

RequestIdle ==
    /\ pc = "idle"
    /\ request = NoRequest
    /\ seed = 0
    /\ limit = 0
    /\ agg_limit = 0
    /\ tasks = [p \in Platforms |-> NoTask]
    /\ calls = [p \in Platforms |-> 0]
    /\ completed = <<>>
    /\ response = NoResponse

NoMockRequest == [platform |-> NoPlatform, limit |-> 0, seed |-> 0, token |-> 0]

NoMockResponse == [status |-> 0, videos |-> <<>>, total |-> 0, platform |-> NoPlatform,
                   has_ads |-> FALSE, user_tier |-> "none"]

MockIdle ==
    /\ variant = "none"
    /\ mock_request = NoMockRequest
    /\ mock_response = NoMockResponse

AdIdle ==
    /\ ad_user = "none"
    /\ ad_videos = <<>>
    /\ ad_content = <<>>

FetchIdle ==
    /\ fetched_by = "none"
    /\ fetch_count = 0
    /\ fetch_live = NoTask.live
    /\ fetched = <<>>

(* No plan: get_plan returned None.                                        *)
NoPlan == [tier |-> "none", price_monthly |-> 0, price_yearly |-> 0]

PayIdle ==
    /\ pay_request = [plan |-> NoPlan, billing_cycle |-> "monthly", db_up |-> TRUE,
                      before |-> 0]
    /\ pay_response = [status |-> 0, detail |-> "", amount |-> 0]
    /\ payment_transactions = <<>>

DurationIdle ==
    /\ duration = <<>>
    /\ duration_display = <<"?">>

Chats == {1, 2}

(* The place of a chat that has no document in telegram_subscriptions.     *)
NoDocument == [chat_id |-> 0, subscribed |-> FALSE]

TelegramIdle ==
    /\ telegram_subscriptions = [c \in Chats |-> NoDocument]
    /\ tg_handler = [c \in Chats |-> [pc |-> "idle", text |-> <<>>]]
    /\ tg_last = [c \in Chats |-> "none"]

ApiCallers == {1, 2, 3}

TikTokInitIdle ==
    /\ api = "none"
    /\ api_call = [c \in ApiCallers |-> "idle"]
    /\ api_used = [c \in ApiCallers |-> "unused"]

EmailRequests == {1, 2, 3}

Emails == {1, 2}

NoUser ==
    [email |-> 0, name |-> "", daily_email_enabled |-> FALSE,
     email_notifications_enabled |-> FALSE]

SubscribeIdle ==
    /\ db_users = <<>>
    /\ sub_request = [r \in EmailRequests |-> [email |-> 0, name |-> "", at |-> "new"]]
    /\ sub_user_data = [r \in EmailRequests |-> NoUser]

----------------------------------------------------------------------------
(* The calculator as a state machine: a first call on any valid input,     *)
(* then calls whose arguments differ from the previous call's in one way.  *)

NoCall == [views |-> 0, likes |-> 0, days_old |-> 0, viral_score |-> 0]

Called == [views |-> views, likes |-> likes, days_old |-> days_old,
           viral_score |-> viral_score]

InitScore ==
    /\ views \in 0..MaxViews
    /\ likes \in 0..MaxLikes
    /\ days_old \in 0..MaxDays
    /\ viral_score = 0
    /\ prev = NoCall
    /\ op = "none"
    /\ RequestIdle
    /\ MockIdle
    /\ AdIdle
    /\ FetchIdle
    /\ PayIdle
    /\ DurationIdle
    /\ TelegramIdle
    /\ TikTokInitIdle
    /\ SubscribeIdle

(* The first call.                                                         *)
Calculate ==
    /\ op = "none"
    /\ viral_score' = calculate_viral_score(views, likes, days_old)
    /\ op' = "first"
    /\ UNCHANGED <<views, likes, days_old, prev, reqVars, mockVars, adVars, fetchVars, payVars, durVars, tgVars, apiVars, subVars>>

(* A second call with more views, likes and age held fixed.                *)
CalculateMoreViews ==
    /\ op = "first"
    /\ \E v2 \in views..MaxViews :
        /\ views' = v2
        /\ viral_score' = calculate_viral_score(v2, likes, days_old)
    /\ prev' = Called
    /\ op' = "views"
    /\ UNCHANGED <<likes, days_old, reqVars, mockVars, adVars, fetchVars, payVars, durVars, tgVars, apiVars, subVars>>

(* A second call on an older video, views and likes held fixed.            *)
CalculateOlder ==
    /\ op = "first"
    /\ \E d2 \in days_old..MaxDays :
        /\ days_old' = d2
        /\ viral_score' = calculate_viral_score(views, likes, d2)
    /\ prev' = Called
    /\ op' = "age"
    /\ UNCHANGED <<views, likes, reqVars, mockVars, adVars, fetchVars, payVars, durVars, tgVars, apiVars, subVars>>

(* A second call with at least as many views and the same likes-per-view   *)
(* ratio (likes * views2 = likes2 * views), the age held fixed.            *)
CalculateScaled ==
    /\ op = "first"
    /\ \E v2 \in views..(MaxScale * MaxViews), l2 \in 0..(MaxScale * MaxLikes) :
        /\ likes * v2 = l2 * views
        /\ views' = v2
        /\ likes' = l2
        /\ viral_score' = calculate_viral_score(v2, l2, days_old)
    /\ prev' = Called
    /\ op' = "scale"
    /\ UNCHANGED <<days_old, reqVars, mockVars, adVars, fetchVars, payVars, durVars, tgVars, apiVars, subVars>>

NextScore ==
    \/ Calculate
    \/ CalculateMoreViews
    \/ CalculateOlder
    \/ CalculateScaled

SpecScore == InitScore /\ [][NextScore]_vars

----------------------------------------------------------------------------
(* GET /api/videos of backend/server.py as a state machine, for the server *)
(* started without a database (advertising_service is None, so no ads are  *)
(* fetched or injected).  One request is followed from the query to the    *)
(* response; the fetch coroutines it launches complete in any order.       *)

ScoreIdle ==
    /\ views = 0
    /\ likes = 0
    /\ days_old = 0
    /\ viral_score = 0
    /\ prev = NoCall
    /\ op = "none"

Init == ScoreIdle /\ RequestIdle /\ MockIdle /\ AdIdle /\ FetchIdle /\ PayIdle /\ DurationIdle /\ TelegramIdle /\ TikTokInitIdle /\ SubscribeIdle

(* get_viral_videos up to its first await: the plan cap, then either the   *)
(* platform's fetcher or get_aggregated_viral_videos up to asyncio.gather. *)
ReceiveRequest ==
    /\ pc = "idle"
    /\ \E platform \in Platforms \cup {NoPlatform}, n \in Limits, user \in Users,
          sd \in 0..MaxSeed :
        LET lim == HandlerLimit(n, user)
            agg == IF platform = NoPlatform THEN AggregatorLimit(lim, user) ELSE 0
            cnt == IF platform = NoPlatform THEN videos_per_platform(agg) ELSE lim
        IN  /\ request' = [platform |-> platform, limit |-> n, user |-> user]
            /\ seed' = sd
            /\ limit' = lim
            /\ agg_limit' = agg
            /\ tasks' = [p \in Platforms |->
                           IF p \in Dispatch(platform)
                           THEN [NoTask EXCEPT !.state = "pending", !.count = cnt]
                           ELSE NoTask]
            /\ calls' = [p \in Platforms |->
                           IF p \in Dispatch(platform) THEN calls[p] + 1 ELSE calls[p]]
    /\ pc' = "fetching"
    /\ UNCHANGED <<completed, response, scoreVars, mockVars, adVars, fetchVars, payVars, durVars, tgVars, apiVars, subVars>>

(* The live calls are synchronous: while one of them has not returned, the *)
(* event loop runs no other coroutine.                                     *)
LoopFree == \A p \in Platforms : tasks[p].state # "stalled"

Finish(p, live, outcome) ==
    /\ tasks' = [tasks EXCEPT ![p] =
                   [state |-> IF outcome.raised THEN "raised" ELSE "returned",
                    count |-> tasks[p].count,
                    live |-> live,
                    result |-> outcome.videos]]
    /\ completed' = Append(completed, p)

(* One run of fetch_youtube_viral_videos against the live source.          *)
FetchYouTube ==
    /\ pc = "fetching"
    /\ LoopFree
    /\ tasks["youtube"].state = "pending"
    /\ \E live \in YouTubeLive :
        Finish("youtube", live,
               fetch_youtube_viral_videos(tasks["youtube"].count, live, seed))
    /\ UNCHANGED <<pc, request, seed, limit, agg_limit, calls, response, scoreVars, mockVars, adVars, fetchVars, payVars, durVars, tgVars, apiVars, subVars>>

(* One run of fetch_tiktok_viral_videos.                                   *)
FetchTikTok ==
    /\ pc = "fetching"
    /\ LoopFree
    /\ tasks["tiktok"].state = "pending"
    /\ \E live \in TikTokLive :
        Finish("tiktok", live,
               fetch_tiktok_viral_videos(tasks["tiktok"].count, live, seed))
    /\ UNCHANGED <<pc, request, seed, limit, agg_limit, calls, response, scoreVars, mockVars, adVars, fetchVars, payVars, durVars, tgVars, apiVars, subVars>>

(* One run of fetch_twitter_viral_videos against the live source.          *)
FetchTwitter ==
    /\ pc = "fetching"
    /\ LoopFree
    /\ tasks["twitter"].state = "pending"
    /\ \E live \in TwitterLive :
        Finish("twitter", live,
               fetch_twitter_viral_videos(tasks["twitter"].count, live, seed))
    /\ UNCHANGED <<pc, request, seed, limit, agg_limit, calls, response, scoreVars, mockVars, adVars, fetchVars, payVars, durVars, tgVars, apiVars, subVars>>

(* A fetch coroutine that ends with an exception instead of running the    *)
(* fetcher to its return: a fetcher replaced by a throwing double (the     *)
(* simulated fetcher failure of the tests), or an exception that           *)
(* `except Exception` does not catch, such as asyncio.CancelledError.      *)
TaskRaises ==
    /\ pc = "fetching"
    /\ LoopFree
    /\ \E p \in Platforms :
        /\ tasks[p].state = "pending"
        /\ Finish(p, NoTask.live, Raised)
    /\ UNCHANGED <<pc, request, seed, limit, agg_limit, calls, response, scoreVars, mockVars, adVars, fetchVars, payVars, durVars, tgVars, apiVars, subVars>>

(* The filtered branch after its await: the fetcher's list goes into the   *)
(* VideoResponse; an exception reaches the handler's except clause.        *)
RespondFiltered ==
    /\ pc = "fetching"
    /\ request.platform # NoPlatform
    /\ tasks[request.platform].state \in {"returned", "raised"}
    /\ response' = IF tasks[request.platform].state = "raised"
                   THEN HTTPException500
                   ELSE VideoResponse(tasks[request.platform].result,
                                      request.platform, request.user)
    /\ pc' = "done"
    /\ UNCHANGED <<request, seed, limit, agg_limit, tasks, calls, completed, scoreVars, mockVars, adVars, fetchVars, payVars, durVars, tgVars, apiVars, subVars>>

(* Results are collected as the tasks complete (asyncio.as_completed).     *)
gather_as_completed(order) ==
    [i \in 1..Len(order) |->
        [raised |-> tasks[order[i]].state = "raised",
         videos |-> tasks[order[i]].result]]

(* results = await asyncio.gather with return_exceptions=True, for tasks   *)
(* that ended in the given order: the results are in the order of the      *)
(* awaitables passed, whatever order they ended in.                        *)
gather(order) ==
    [i \in 1..Len(TaskOrder) |->
        [raised |-> tasks[TaskOrder[i]].state = "raised",
         videos |-> tasks[TaskOrder[i]].result]]

TaskResults == gather(completed)

(* The unfiltered branch once asyncio.gather has every task's result.      *)
RespondAggregated ==
    /\ pc = "fetching"
    /\ request.platform = NoPlatform
    /\ \A p \in Platforms : tasks[p].state \in {"returned", "raised"}
    /\ LET out == Aggregate(TaskResults, agg_limit)
       IN  response' = IF out.raised
                       THEN HTTPException500
                       ELSE VideoResponse(out.videos, NoPlatform, request.user)
    /\ pc' = "done"
    /\ UNCHANGED <<request, seed, limit, agg_limit, tasks, calls, completed, scoreVars, mockVars, adVars, fetchVars, payVars, durVars, tgVars, apiVars, subVars>>

Next ==
    \/ ReceiveRequest
    \/ FetchYouTube
    \/ FetchTikTok
    \/ FetchTwitter
    \/ TaskRaises
    \/ RespondFiltered
    \/ RespondAggregated

Spec == Init /\ [][Next]_vars

----------------------------------------------------------------------------
(* Claims about the viral-score calculator, checked under SpecScore.       *)

(* C1: for every views >= 0, likes >= 0 and days_old >= 0 the value        *)
(* returned by calculate_viral_score lies in [0, 100].                     *)
C1_ScoreInRange ==
    op # "none" => /\ 0 <= viral_score
                   /\ viral_score <= ScoreCap * ScoreUnit

(* A call whose uncapped product exceeds 100 and is clamped to 100.        *)
C1_Witness ==
    /\ op = "first"
    /\ views > 0
    /\ calculate_viral_score_uncapped(views, likes, days_old) > ScoreCap * ScoreUnit
    /\ viral_score = ScoreCap * ScoreUnit

(* C2 as stated: with likes and days_old held fixed, more views never      *)
(* lower the score.                                                        *)
C2_Original_MonotoneInViews ==
    op = "views" => prev.viral_score <= viral_score

(* C2 amended: the score is non-decreasing in views when the likes-per-view *)
(* ratio and the age are held fixed (likes1 * views2 = likes2 * views1),    *)
(* and in particular when likes = 0.                                        *)
C2_MonotoneInViewsAtFixedRatio ==
    /\ op = "scale" => prev.viral_score <= viral_score
    /\ (op = "views" /\ likes = 0) => prev.viral_score <= viral_score

(* More views at the same non-zero likes-per-view ratio gave a strictly    *)
(* higher score.                                                           *)
C2_Witness ==
    /\ op = "scale"
    /\ prev.views > 0
    /\ prev.likes > 0
    /\ views > prev.views
    /\ prev.viral_score < viral_score

(* C3: with views and likes held fixed, a greater age never raises the     *)
(* score.                                                                  *)
C3_MonotoneInAge ==
    op = "age" => prev.viral_score >= viral_score

(* An older copy of the same video scored strictly lower.                  *)
C3_Witness ==
    /\ op = "age"
    /\ days_old > prev.days_old
    /\ prev.viral_score > viral_score

(* C4: for views = 0 the call returns exactly 0, whatever likes and        *)
(* days_old are (the division by views is never evaluated).                *)
C4_ZeroViewsScoreZero ==
    (op # "none" /\ views = 0) => viral_score = 0

(* A call with no views but some likes returned 0.                         *)
C4_Witness ==
    /\ op = "first"
    /\ views = 0
    /\ likes > 0
    /\ viral_score = 0

----------------------------------------------------------------------------
(* Claims about GET /api/videos, checked under Spec.                       *)

Unfiltered == request.platform = NoPlatform

Answered == pc = "done"

NonIncreasing(s) ==
    \A i \in 1..Len(s) - 1 : s[i].viral_score >= s[i + 1].viral_score

RaisedTasks == {p \in Platforms : tasks[p].state = "raised"}

ReturnedTasks == {p \in Platforms : tasks[p].state = "returned"}

Records(s) == {s[i] : i \in 1..Len(s)}

C6_Original_NeverServerError ==
    (Answered /\ request.limit >= 1) =>
        /\ response.status = 200
        /\ (RaisedTasks # {} /\ ReturnedTasks = {}) => Len(response.videos) = 1

(* C7: a fetcher run against the live source, whatever the source does,    *)
(* returns a list (it does not raise), of at most N records for N >= 1.    *)
C7_FetchersReturnAtMostN ==
    \A p \in Platforms :
        tasks[p].live.kind # "none" =>
            /\ tasks[p].state = "returned"
            /\ tasks[p].count >= 1 => Len(tasks[p].result) <= tasks[p].count

(* The live YouTube call raised and N fallback records were returned,      *)
(* while the live Twitter response held a malformed tweet and the fetcher  *)
(* returned the records of the others.                                     *)
C7_Witness ==
    /\ tasks["youtube"].live.kind = "error"
    /\ tasks["youtube"].state = "returned"
    /\ tasks["youtube"].count >= 1
    /\ Len(tasks["youtube"].result) = tasks["youtube"].count
    /\ tasks["twitter"].live.kind = "tweets"
    /\ \E i \in 1..Len(tasks["twitter"].live.items) : ~tasks["twitter"].live.items[i].ok
    /\ tasks["twitter"].state = "returned"
    /\ tasks["twitter"].result # <<>>

NoUsableRecords(p) ==
    /\ tasks[p].live.kind \in {"items", "tweets"}
    /\ \A i \in 1..Len(tasks[p].live.items) : ~tasks[p].live.items[i].ok

(* C8 as stated: a live attempt with no usable record falls back, so for   *)
(* N >= 1 (and a request limit >= 1) the fetcher returns fallback records, *)
(* never an empty list.                                                    *)
C8_Original_EmptyLiveFallsBack ==
    \A p \in Platforms :
        (NoUsableRecords(p) /\ tasks[p].count >= 1 /\ request.limit >= 1) =>
            /\ tasks[p].result # <<>>
            /\ \A i \in 1..Len(tasks[p].result) : tasks[p].result[i].source = "mock"

(* C9: when some fetch tasks raise, the aggregator still returns: the      *)
(* other tasks ran to completion, the result holds records of returned     *)
(* tasks only, each at most once, in non-increasing score order, all of    *)
(* them when they fit the limit and the highest-scored ones otherwise; it  *)
(* is empty when all three raise.                                          *)
C9_FailuresIsolated ==
    (Answered /\ Unfiltered) =>
        LET merged == ExtendAll(TaskResults, 1)
            out == response.videos
        IN  /\ response.status = 200
            /\ RaisedTasks \cup ReturnedTasks = Platforms
            /\ \A i \in 1..Len(out) :
                  /\ out[i].platform \in ReturnedTasks
                  /\ out[i] \in Records(tasks[out[i].platform].result)
            /\ Cardinality(Records(out)) = Len(out)
            /\ NonIncreasing(out)
            /\ agg_limit >= 0 => Len(out) = Min(agg_limit, Len(merged))
            /\ \A r \in Records(merged) \ Records(out) :
                  \A i \in 1..Len(out) : out[i].viral_score >= r.viral_score
            /\ ReturnedTasks = {} => out = <<>>

(* One task raised, the two others returned, and the response holds        *)
(* records of both of them.                                                *)
C9_Witness ==
    /\ Answered /\ Unfiltered
    /\ Cardinality(RaisedTasks) = 1
    /\ response.status = 200
    /\ \A p \in ReturnedTasks :
          \E i \in 1..Len(response.videos) : response.videos[i].platform = p

C11_Original_FilteredSorted ==
    (Answered /\ ~Unfiltered /\ response.status = 200 /\ request.limit >= 1) =>
        NonIncreasing(response.videos)

(* The daily cap of the caller's plan.                                     *)
PlanCap == get_plan(TierOf(request.user)).max_videos_per_day

Launched == {p \in Platforms : tasks[p].state # "idle"}

AllFromFallback ==
    \A p \in Launched :
        /\ tasks[p].state = "returned"
        /\ tasks[p].live.kind \in {"no_key", "no_token", "error", "disabled"}

(* C13 as stated: whatever integer limit is, the answer is 2xx and holds   *)
(* at least 1 and at most 50 (or the tier cap, where that is larger)       *)
(* records (here for requests served entirely from fallback data).         *)
C13_Original_LimitClamped ==
    (Answered /\ AllFromFallback) =>
        /\ response.status = 200
        /\ Len(response.videos) >= 1
        /\ Len(response.videos) <= Max(50, PlanCap)

----------------------------------------------------------------------------
(* GET /api/videos of the server modules that build their answer from      *)
(* tables in the source instead of fetchers: backend/server_minimal.py,    *)
(* backend/server_hybrid.py, BULLETPROOF_SERVER.py, MULTI_PLATFORM_SERVER.py. *)

(* Values of the query parameter platform (a str): absent, the three       *)
(* platforms, one of them in another case, and a name that is no platform. *)
PlatformQueries == Platforms \cup {NoPlatform, "YouTube", "instagram"}

(* str.lower() on the values of PlatformQueries.                           *)
Lower(s) == IF s = "YouTube" THEN "youtube" ELSE s

(* Values of the query parameter limit of these servers.                   *)
MockLimits == {-1, 0, 1, 3, 10, 17, 40, 50, 51, 101}

(* A URL built by an f-string or written as a literal: its pieces in       *)
(* order; a substring test looks for the piece.                            *)
YouTubeUrl == <<"https://www.youtube.com", "/watch?v=", "id">>
TikTokUrl == <<"https://www.tiktok.com/", "@creator", "/video/", "id">>
TwitterUrl == <<"https://twitter.com", "/account", "/status/", "id">>
TikTokProfileUrl == <<"https://www.tiktok.com/", "@creator">>
TwitterProfileUrl == <<"https://twitter.com", "/account">>

UrlContains(url, piece) == \E i \in 1..Len(url) : url[i] = piece

(* One video dict of a response.                                           *)
MockVideo(p, score, url, thumbnail) ==
    [platform |-> p, viral_score |-> score, url |-> url, thumbnail |-> thumbnail]

(* [v for v in videos if v["platform"] == platform_lower]                  *)
FilterPlatform(videos, p) == SelectSeq(videos, LAMBDA v : v.platform = p)

(* The dict a handler returns, HTTP 200; every one of these handlers       *)
(* writes "user_tier": "free".                                            *)
MockOK(videos, platform, has_ads) ==
    [status |-> 200, videos |-> videos, total |-> Len(videos), platform |-> platform,
     has_ads |-> has_ads, user_tier |-> "free"]

(* FastAPI's answer to a query parameter that fails validation.            *)
ValidationError422 ==
    [status |-> 422, videos |-> <<>>, total |-> 0, platform |-> NoPlatform,
     has_ads |-> FALSE, user_tier |-> "none"]

(*** backend/server_minimal.py ***)

MinimalYouTubeSamples == 20
MinimalTikTokCreators == 10
MinimalTwitterAccounts == 10
MinimalYouTubeBase == 85
MinimalTikTokBase == 88
MinimalTwitterBase == 82

(* The three loops that fill videos: "viral_score": base + i.              *)
MinimalVideos ==
    [i \in 1..MinimalYouTubeSamples |->
        MockVideo("youtube", (MinimalYouTubeBase + (i - 1)) * ScoreUnit,
                  YouTubeUrl, "https://i.ytimg.com/vi/id/hqdefault.jpg")]
    \o [i \in 1..MinimalTikTokCreators |->
        MockVideo("tiktok", (MinimalTikTokBase + (i - 1)) * ScoreUnit,
                  TikTokUrl, "https://via.placeholder.com/300x200?text=TikTok")]
    \o [i \in 1..MinimalTwitterAccounts |->
        MockVideo("twitter", (MinimalTwitterBase + (i - 1)) * ScoreUnit,
                  TwitterUrl, "https://via.placeholder.com/300x200?text=Twitter")]

(* get_videos(platform: str = None, limit: int = 40)                       *)
minimal_get_videos(platform, n) ==
    LET videos == IF platform # NoPlatform
                  THEN FilterPlatform(MinimalVideos, Lower(platform))
                  ELSE MinimalVideos
    IN  MockOK(PySlice(videos, n), platform, TRUE)

(*** backend/server_hybrid.py ***)

HybridYouTubeVideos == 6
HybridTikTokVideos == 5
HybridTwitterVideos == 5
HybridScoreBase == 90
HybridLimitMin == 1
HybridLimitMax == 100

(* youtube_videos + tiktok_videos + twitter_videos, then the loop that     *)
(* adds "viral_score": 90.0 + (i % 10) to each.                            *)
HybridVideos ==
    LET all == [i \in 1..HybridYouTubeVideos |->
                   [platform |-> "youtube", url |-> YouTubeUrl,
                    thumbnail |-> "https://i.ytimg.com/vi/id/hqdefault.jpg"]]
               \o [i \in 1..HybridTikTokVideos |->
                   [platform |-> "tiktok", url |-> TikTokProfileUrl,
                    thumbnail |-> "data:image/svg+xml;base64,TikTok"]]
               \o [i \in 1..HybridTwitterVideos |->
                   [platform |-> "twitter", url |-> TwitterProfileUrl,
                    thumbnail |-> "data:image/svg+xml;base64,Twitter"]]
    IN  [i \in 1..Len(all) |->
            MockVideo(all[i].platform, (HybridScoreBase + ((i - 1) % 10)) * ScoreUnit,
                      all[i].url, all[i].thumbnail)]

(* get_videos(platform: str = Query(None), limit: int = Query(40, ge=1,    *)
(* le=100)): a limit out of range is answered 422 by the framework; a      *)
(* platform that is none of the three is logged and not filtered on.       *)
hybrid_get_videos(platform, n) ==
    IF n < HybridLimitMin \/ n > HybridLimitMax THEN ValidationError422
    ELSE LET all_videos ==
                 IF platform # NoPlatform /\ Lower(platform) \in Platforms
                 THEN FilterPlatform(HybridVideos, Lower(platform))
                 ELSE HybridVideos
         IN  MockOK(PySlice(all_videos, n), platform, TRUE)

(*** BULLETPROOF_SERVER.py and MULTI_PLATFORM_SERVER.py ***)

MockLimitMin == 1
MockLimitMax == 50

(* limit = min(max(limit, 1), 50)                                          *)
ClampLimit(n) == Min(Max(n, MockLimitMin), MockLimitMax)

(* round(x, 1) of a score in thousandths.                                  *)
Round1(x) == ((x + 50) \div 100) * 100

(* 95.0 - i * 1.5 + random.uniform(-2, 2): the step is in thousandths.     *)
BulletproofTop == 95
BulletproofStep == 1500
BulletproofJitter == 2

(* platforms = ["youtube", "tiktok", "twitter"]                            *)
BulletproofPlatforms == <<"youtube", "tiktok", "twitter">>

(* get_viral_videos of BULLETPROOF_SERVER.py: for i in range(limit), with  *)
(* platforms[i % 3], a url of real_working_urls, the one thumbnail and     *)
(* round(95.0 - i * 1.5 + random.uniform(-2, 2), 1); platform is unused.   *)
bulletproof_get_viral_videos(platform, n, sd) ==
    LET lim == ClampLimit(n)
    IN  MockOK([k \in 1..lim |->
                   MockVideo(BulletproofPlatforms[((k - 1) % 3) + 1],
                             Round1(BulletproofTop * ScoreUnit - (k - 1) * BulletproofStep
                                    + RandomUniform(-BulletproofJitter, BulletproofJitter,
                                                    sd, k - 1)),
                             YouTubeUrl, "https://i.ytimg.com/vi/dQw4w9WgXcQ/hqdefault.jpg")],
               platform, FALSE)

(* 95.0 - i * 1.2 + random.uniform(-3, 3): the step is in thousandths.     *)
MultiPlatformTop == 95
MultiPlatformStep == 1200
MultiPlatformJitter == 3

(* The platforms of the entries of video_content, in order.                *)
MultiPlatformContent ==
    <<"youtube", "youtube", "tiktok", "tiktok", "tiktok", "twitter", "twitter",
      "youtube", "youtube", "tiktok", "twitter", "youtube", "tiktok", "twitter",
      "youtube">>

(* The url of an entry of video_content has its platform's shape.          *)
ContentUrl(p) ==
    CASE p = "youtube" -> YouTubeUrl
      [] p = "tiktok" -> TikTokUrl
      [] p = "twitter" -> TwitterUrl

(* get_viral_videos of MULTI_PLATFORM_SERVER.py: for i in range(limit),    *)
(* content = video_content[i % len(video_content)] and                     *)
(* round(95.0 - i * 1.2 + random.uniform(-3, 3), 1); platform is unused.   *)
multi_platform_get_viral_videos(platform, n, sd) ==
    LET lim == ClampLimit(n)
    IN  MockOK([k \in 1..lim |->
                   LET p == MultiPlatformContent[((k - 1) % Len(MultiPlatformContent)) + 1]
                   IN  MockVideo(p,
                                 Round1(MultiPlatformTop * ScoreUnit - (k - 1) * MultiPlatformStep
                                        + RandomUniform(-MultiPlatformJitter,
                                                        MultiPlatformJitter, sd, k - 1)),
                                 ContentUrl(p), "https://picsum.photos/400/225")],
               platform, FALSE)

(*** One request to one of these servers ***)

Answer(server, platform, n, sd, out) ==
    /\ variant' = server
    /\ mock_request' = [platform |-> platform, limit |-> n, seed |-> sd, token |-> 0]
    /\ mock_response' = out

(* One request to backend/server_minimal.py.                               *)
MinimalGetVideos ==
    /\ variant = "none"
    /\ \E platform \in PlatformQueries, n \in MockLimits :
        Answer("server_minimal", platform, n, 0, minimal_get_videos(platform, n))
    /\ UNCHANGED <<scoreVars, reqVars, adVars, fetchVars, payVars, durVars, tgVars, apiVars, subVars>>

(* One request to backend/server_hybrid.py.                                *)
HybridGetVideos ==
    /\ variant = "none"
    /\ \E platform \in PlatformQueries, n \in MockLimits :
        Answer("server_hybrid", platform, n, 0, hybrid_get_videos(platform, n))
    /\ UNCHANGED <<scoreVars, reqVars, adVars, fetchVars, payVars, durVars, tgVars, apiVars, subVars>>

(* One request to BULLETPROOF_SERVER.py.                                   *)
BulletproofGetViralVideos ==
    /\ variant = "none"
    /\ \E platform \in PlatformQueries, n \in MockLimits, sd \in 0..MaxSeed :
        Answer("BULLETPROOF_SERVER", platform, n, sd,
               bulletproof_get_viral_videos(platform, n, sd))
    /\ UNCHANGED <<scoreVars, reqVars, adVars, fetchVars, payVars, durVars, tgVars, apiVars, subVars>>

(* One request to MULTI_PLATFORM_SERVER.py.                                *)
MultiPlatformGetViralVideos ==
    /\ variant = "none"
    /\ \E platform \in PlatformQueries, n \in MockLimits, sd \in 0..MaxSeed :
        Answer("MULTI_PLATFORM_SERVER", platform, n, sd,
               multi_platform_get_viral_videos(platform, n, sd))
    /\ UNCHANGED <<scoreVars, reqVars, adVars, fetchVars, payVars, durVars, tgVars, apiVars, subVars>>

(*** backend/server_enhanced.py ***)

EnhancedYouTubeVideos == 6
EnhancedTikTokVideos == 6
EnhancedTwitterVideos == 6
EnhancedScoreLo == 75
EnhancedScoreHi == 98
EnhancedFreeCap == 15
EnhancedProCap == 25
EnhancedTokenLen == 10

(* Lengths of the bearer token of a request; 0: no Authorization header.   *)
BearerTokens == {0, 10, 11}

(* get_enhanced_video_data(): youtube_videos + tiktok_videos +             *)
(* twitter_videos; viral_score is written by the handler.                  *)
get_enhanced_video_data ==
    [i \in 1..EnhancedYouTubeVideos |->
        MockVideo("youtube", 0, YouTubeUrl, "https://i.ytimg.com/vi/id/hqdefault.jpg")]
    \o [i \in 1..EnhancedTikTokVideos |->
        MockVideo("tiktok", 0, TikTokUrl, "https://p16-sign-va.tiktokcdn.com/obj/id")]
    \o [i \in 1..EnhancedTwitterVideos |->
        MockVideo("twitter", 0, TwitterUrl, "https://pbs.twimg.com/media/id.jpg:large")]

(* random.shuffle(all_videos): of the orders it can give, the rotations,   *)
(* one per state of the generator.                                         *)
Shuffle(s, sd) ==
    [i \in 1..Len(s) |-> s[((i - 1 + sd * 5) % Len(s)) + 1]]

(* The tier the handler gives a caller with a bearer token of this length. *)
enhanced_user_tier(token) ==
    IF token > 0
    THEN IF token > EnhancedTokenLen THEN "pro" ELSE "business"
    ELSE "free"

(* get_viral_videos of server_enhanced.py: filter, shuffle, tier, tier     *)
(* limit, all_videos[:max_videos], the metadata update.                    *)
enhanced_get_viral_videos(platform, n, token, sd) ==
    LET all_videos == Shuffle(IF platform # NoPlatform
                              THEN FilterPlatform(get_enhanced_video_data, Lower(platform))
                              ELSE get_enhanced_video_data, sd)
        user_tier == enhanced_user_tier(token)
        max_videos == CASE user_tier = "free" -> Min(n, EnhancedFreeCap)
                        [] user_tier = "pro" -> Min(n, EnhancedProCap)
                        [] OTHER -> n
        videos == PySlice(all_videos, max_videos)
    IN  [status |-> 200,
         videos |-> [i \in 1..Len(videos) |->
                       [videos[i] EXCEPT !.viral_score =
                           RandomUniform(EnhancedScoreLo, EnhancedScoreHi, sd, i - 1)]],
         total |-> Len(videos), platform |-> platform,
         has_ads |-> user_tier = "free", user_tier |-> user_tier]

(* One request to backend/server_enhanced.py.                              *)
EnhancedGetViralVideos ==
    /\ variant = "none"
    /\ \E platform \in PlatformQueries, n \in MockLimits, token \in BearerTokens,
          sd \in 0..MaxSeed :
        /\ variant' = "server_enhanced"
        /\ mock_request' = [platform |-> platform, limit |-> n, seed |-> sd, token |-> token]
        /\ mock_response' = enhanced_get_viral_videos(platform, n, token, sd)
    /\ UNCHANGED <<scoreVars, reqVars, adVars, fetchVars, payVars, durVars, tgVars, apiVars, subVars>>

NextMock ==
    \/ MinimalGetVideos
    \/ HybridGetVideos
    \/ BulletproofGetViralVideos
    \/ MultiPlatformGetViralVideos
    \/ EnhancedGetViralVideos

SpecMock == Init /\ [][NextMock]_vars

----------------------------------------------------------------------------
(* Claims about these servers, checked under SpecMock.                     *)

MockAnswered == variant # "none"

(* The platform given is no platform in any letter case.                   *)
InvalidPlatform == Lower(mock_request.platform) \notin Platforms \cup {NoPlatform}

(* C14 as stated: a platform value outside youtube, tiktok, twitter is     *)
(* answered 422, never 500 and never 200 with videos (here with a limit    *)
(* every server accepts).                                                  *)
C14_Original_InvalidPlatformRejected ==
    (MockAnswered /\ InvalidPlatform /\ mock_request.limit \in 1..50) =>
        /\ mock_response.status = 422
        /\ mock_response.videos = <<>>

----------------------------------------------------------------------------
(* Ad injection: AdvancedAdvertisingService.inject_video_ads applied to    *)
(* a list of videos as get_viral_videos holds it before it answers.        *)

(* Largest limit of the requests whose videos are handed to the injection. *)
MaxFeed == 9

AdFrequency == 3

(* _video_to_dict(video)                                                   *)
video_to_dict(v) ==
    [type |-> "video", platform |-> v.platform, viral_score |-> v.viral_score,
     source |-> v.source, n |-> v.n]

(* _generate_video_ad(context_platform)                                    *)
generate_video_ad(p) ==
    [type |-> "advertisement", platform |-> "advertisement", context_platform |-> p]

(* The loop of inject_video_ads from the k-th video on (k counts from 1):  *)
(* the video, then an ad if (i + 1) % ad_frequency == 0 and                *)
(* i < len(videos) - 1, where i = k - 1.                                   *)
RECURSIVE InjectFrom(_, _)
InjectFrom(videos, k) ==
    IF k > Len(videos) THEN <<>>
    ELSE <<video_to_dict(videos[k])>>
         \o (IF k % AdFrequency = 0 /\ k - 1 < Len(videos) - 1
             THEN <<generate_video_ad(videos[k].platform)>>
             ELSE <<>>)
         \o InjectFrom(videos, k + 1)

(* The tier test is left out: every caller gets the interleaved list.      *)
inject_video_ads_all_tiers(videos, user) == InjectFrom(videos, 1)

(* inject_video_ads(videos, user)                                          *)
inject_video_ads(videos, user) ==
    IF user # "anonymous" /\ TierOf(user) # "free"
    THEN [k \in 1..Len(videos) |-> video_to_dict(videos[k])]
    ELSE InjectFrom(videos, 1)

(* The videos get_viral_videos holds for a request served from fallback    *)
(* data, with and without a platform filter.                               *)
HandlerVideos(platform, n, user, sd) ==
    LET lim == HandlerLimit(n, user)
        agg == AggregatorLimit(lim, user)
        cnt == videos_per_platform(agg)
    IN  CASE platform = "youtube" -> get_youtube_mock_data(lim, sd)
          [] platform = "tiktok" -> get_mock_tiktok_data(lim, sd)
          [] platform = "twitter" -> get_twitter_mock_data(lim, sd)
          [] OTHER -> Aggregate(<<Returned(get_youtube_mock_data(cnt, sd)),
                                  Returned(get_mock_tiktok_data(cnt, sd)),
                                  Returned(get_twitter_mock_data(cnt, sd))>>, agg).videos

InjectVideoAds ==
    /\ ad_user = "none"
    /\ \E platform \in Platforms \cup {NoPlatform}, n \in 0..MaxFeed, user \in Users,
          sd \in 0..MaxSeed :
        /\ ad_user' = user
        /\ ad_videos' = HandlerVideos(platform, n, user, sd)
        /\ ad_content' = inject_video_ads(HandlerVideos(platform, n, user, sd), user)
    /\ UNCHANGED <<scoreVars, reqVars, mockVars, fetchVars, payVars, durVars, tgVars, apiVars, subVars>>

NextAds == InjectVideoAds

SpecAds == Init /\ [][NextAds]_vars

(* C15 as stated: every entry of the videos list a GET /api/videos         *)
(* response is built from has platform youtube, tiktok or twitter, for     *)
(* every tier.                                                             *)
C15_Original_OnlyKnownPlatforms ==
    \A i \in 1..Len(ad_content) : ad_content[i].platform \in Platforms

----------------------------------------------------------------------------
(* backend/tiktok_service.py: the service fetch_tiktok_viral_videos        *)
(* delegates to when the module-level tiktok_service is set.               *)

RECURSIVE GCD(_, _)
GCD(a, b) == IF b = 0 THEN a ELSE GCD(b, a % b)

(* floor(a * b / c), with a / c reduced first to keep the product small.   *)
MulDiv(a, b, c) ==
    LET g == GCD(a, c)
    IN  IF g = 0 THEN 0 ELSE ((a \div g) * b) \div (c \div g)

(* floor(10000 * log10(v)) for the view counts of trending_patterns, and   *)
(* Log10E4 for small counts.                                               *)
TikTokLog10E4(v) ==
    CASE v = 47300000 -> 76748
      [] v = 23800000 -> 73765
      [] v = 15900000 -> 72013
      [] v = 31200000 -> 74941
      [] v = 28700000 -> 74578
      [] OTHER -> Log10E4[Max(v, 1)]

(* The min(viral_score, 100.0) is left out.                                *)
tiktok_calculate_viral_score_uncapped(v, l, shares, comments, d) ==
    LET view_score_ == (TikTokLog10E4(v) * 15 * ScoreUnit) \div 10000
        total_engagements == l + shares + comments
        engagement_score_ == IF v > 0 THEN MulDiv(total_engagements, 100 * ScoreUnit, v) ELSE 0
        recency == Max(5, 20 - d)
    IN  ((view_score_ + engagement_score_) * recency) \div 10

(* TikTokService.calculate_viral_score(views, likes, shares, comments,     *)
(* create_time), with days_old for (now - created_date).days:              *)
(* view_score = log10(max(views, 1)) * 15, engagement_score =              *)
(* (likes + shares + comments) / views * 100 if views > 0 else 0,          *)
(* recency_multiplier = max(0.5, 2.0 - days_old * 0.1) in tenths.          *)
tiktok_calculate_viral_score(v, l, shares, comments, d) ==
    Min(tiktok_calculate_viral_score_uncapped(v, l, shares, comments, d),
        ScoreCap * ScoreUnit)

(* return 50.0 of the except clause (a create_time that fromtimestamp      *)
(* rejects).                                                               *)
TikTokDefaultScore == 50

(* trending_patterns of _get_fallback_data.                                *)
TrendingPatterns ==
    <<[views |-> 47300000, likes |-> 8200000], [views |-> 23800000, likes |-> 4100000],
      [views |-> 15900000, likes |-> 2800000], [views |-> 31200000, likes |-> 5600000],
      [views |-> 28700000, likes |-> 4900000]>>

(* random.randint(1, 7) for the i-th fallback record.                      *)
RandomDays(sd, i) == 1 + ((sd * 5 + i * 3) % 7)

(* TikTokService._get_fallback_data(limit): trending_patterns repeated     *)
(* until it has limit entries, then trending_patterns[:limit], each scored *)
(* with shares = views // 100 and comments = views // 200.                 *)
tiktok_get_fallback_data(n, sd) ==
    LET extended == [i \in 1..Max(n, Len(TrendingPatterns)) |->
                        TrendingPatterns[((i - 1) % Len(TrendingPatterns)) + 1]]
        cut == PySlice(extended, n)
    IN  [i \in 1..Len(cut) |->
            Video("tiktok",
                  tiktok_calculate_viral_score(cut[i].views, cut[i].likes,
                                               cut[i].views \div 100, cut[i].views \div 200,
                                               RandomDays(sd, i)),
                  "fallback", i)]

(* Videos of api.trending.videos: well-formed with their stats and age,    *)
(* with a createTime that cannot be converted, or malformed.               *)
TkBad == [ok |-> FALSE, time_ok |-> TRUE, views |-> 0, likes |-> 0, shares |-> 0,
          comments |-> 0, days_old |-> 0]
TkBadTime == [ok |-> TRUE, time_ok |-> FALSE, views |-> 30, likes |-> 3, shares |-> 0,
              comments |-> 0, days_old |-> 0]
TkA == [ok |-> TRUE, time_ok |-> TRUE, views |-> 64, likes |-> 6, shares |-> 1,
        comments |-> 1, days_old |-> 0]
TkHot == [ok |-> TRUE, time_ok |-> TRUE, views |-> 10, likes |-> 9, shares |-> 3,
          comments |-> 2, days_old |-> -1]
TkOld == [ok |-> TRUE, time_ok |-> TRUE, views |-> 50, likes |-> 1, shares |-> 0,
          comments |-> 0, days_old |-> 30]
TkZero == [ok |-> TRUE, time_ok |-> TRUE, views |-> 0, likes |-> 2, shares |-> 0,
           comments |-> 0, days_old |-> 3]

(* initialize() fails, the trending iteration raises, or it yields videos. *)
TikTokServiceLive ==
    {[kind |-> "init_failed", items |-> <<>>], [kind |-> "error", items |-> <<>>]}
    \cup {[kind |-> "trending", items |-> r] :
            r \in {<<>>, <<TkBad>>, <<TkA, TkHot>>, <<TkOld, TkBad, TkA>>,
                   <<TkZero, TkBadTime, TkHot>>, <<TkZero>>}}

(* The loop over trending_videos: a malformed video is logged and skipped. *)
RECURSIVE NormalizeTikTok(_, _)
NormalizeTikTok(items, n) ==
    IF n > Len(items) THEN <<>>
    ELSE IF items[n].ok
         THEN <<Video("tiktok",
                      IF items[n].time_ok
                      THEN tiktok_calculate_viral_score(items[n].views, items[n].likes,
                                                        items[n].shares, items[n].comments,
                                                        items[n].days_old)
                      ELSE TikTokDefaultScore * ScoreUnit,
                      "live", n)>> \o NormalizeTikTok(items, n + 1)
         ELSE NormalizeTikTok(items, n + 1)

(* TikTokService.fetch_trending_videos(limit): the iteration stops once    *)
(* limit videos are collected (after the first one for limit <= 1).        *)
fetch_trending_videos(n, live, sd) ==
    IF live.kind \in {"init_failed", "error"} THEN tiktok_get_fallback_data(n, sd)
    ELSE LET trending_videos == SubSeq(live.items, 1, Min(Max(n, 1), Len(live.items)))
             videos == NormalizeTikTok(trending_videos, 1)
         IN  IF videos = <<>> THEN tiktok_get_fallback_data(n, sd)
             ELSE PySlice(SortByViralScore(videos), n)

----------------------------------------------------------------------------
(* One call of one fetcher with a count N, against whatever its live       *)
(* source does.                                                            *)

(* Values of the fetchers' argument limit.                                 *)
FetchCounts == {1, 2, 5, 7}

Fetched(by, n, live, videos) ==
    /\ fetched_by' = by
    /\ fetch_count' = n
    /\ fetch_live' = live
    /\ fetched' = videos

(* VideoAggregator.fetch_youtube_viral_videos(limit)                       *)
CallYouTube ==
    /\ fetched_by = "none"
    /\ \E n \in FetchCounts, live \in YouTubeLive, sd \in 0..MaxSeed :
        Fetched("youtube", n, live, fetch_youtube_viral_videos(n, live, sd).videos)
    /\ UNCHANGED <<scoreVars, reqVars, mockVars, adVars, payVars, durVars, tgVars, apiVars, subVars>>

(* VideoAggregator.fetch_tiktok_viral_videos(limit), tiktok_service unset  *)
CallTikTok ==
    /\ fetched_by = "none"
    /\ \E n \in FetchCounts, live \in TikTokLive, sd \in 0..MaxSeed :
        Fetched("tiktok", n, live, fetch_tiktok_viral_videos(n, live, sd).videos)
    /\ UNCHANGED <<scoreVars, reqVars, mockVars, adVars, payVars, durVars, tgVars, apiVars, subVars>>

(* VideoAggregator.fetch_twitter_viral_videos(limit)                       *)
CallTwitter ==
    /\ fetched_by = "none"
    /\ \E n \in FetchCounts, live \in TwitterLive, sd \in 0..MaxSeed :
        Fetched("twitter", n, live, fetch_twitter_viral_videos(n, live, sd).videos)
    /\ UNCHANGED <<scoreVars, reqVars, mockVars, adVars, payVars, durVars, tgVars, apiVars, subVars>>

(* TikTokService.fetch_trending_videos(limit)                              *)
CallTikTokService ==
    /\ fetched_by = "none"
    /\ \E n \in FetchCounts, live \in TikTokServiceLive, sd \in 0..MaxSeed :
        Fetched("tiktok_service", n, live, fetch_trending_videos(n, live, sd))
    /\ UNCHANGED <<scoreVars, reqVars, mockVars, adVars, payVars, durVars, tgVars, apiVars, subVars>>

NextFetch ==
    \/ CallYouTube
    \/ CallTikTok
    \/ CallTwitter
    \/ CallTikTokService

SpecFetch == Init /\ [][NextFetch]_vars

(* C16: every record returned by a fetcher path of the full server (the    *)
(* YouTube and Twitter live paths, the TikTok service, the three fallback  *)
(* generators) has 0 <= viral_score <= 100.                                *)
C16_FetcherScoresInRange ==
    \A i \in 1..Len(fetched) :
        /\ 0 <= fetched[i].viral_score
        /\ fetched[i].viral_score <= ScoreCap * ScoreUnit

(* The TikTok service returned live records of which one was clamped to    *)
(* 100 and another scored below it.                                        *)
C16_Witness ==
    /\ fetched_by = "tiktok_service"
    /\ fetch_live.kind = "trending"
    /\ \E i, j \in 1..Len(fetched) :
          /\ fetched[i].source = "live"
          /\ fetched[i].viral_score = ScoreCap * ScoreUnit
          /\ fetched[j].viral_score < ScoreCap * ScoreUnit
          /\ fetched[j].viral_score > 0

(* C17 as stated: every record of an /api/videos answer of                 *)
(* server_minimal, BULLETPROOF_SERVER and MULTI_PLATFORM_SERVER has        *)
(* 0 <= viral_score <= 100, for every limit >= 1 and every platform they   *)
(* accept.                                                                 *)
C17_Original_MockScoresInRange ==
    (MockAnswered /\ variant # "server_hybrid" /\ mock_request.limit >= 1) =>
        \A i \in 1..Len(mock_response.videos) :
            /\ 0 <= mock_response.videos[i].viral_score
            /\ mock_response.videos[i].viral_score <= ScoreCap * ScoreUnit

(* The piece a url of platform p must contain.                             *)
UrlShape(p) ==
    CASE p = "youtube" -> "/watch?v="
      [] p = "tiktok" -> "/video/"
      [] p = "twitter" -> "/status/"

(* C18 as stated: every returned record has a non-empty thumbnail and a    *)
(* non-empty url of its platform's shape (here for a limit every server    *)
(* accepts).                                                               *)
C18_Original_UrlAndThumbnailShape ==
    (MockAnswered /\ mock_request.limit \in 1..50) =>
        \A i \in 1..Len(mock_response.videos) :
            LET v == mock_response.videos[i]
            IN  /\ v.thumbnail # ""
                /\ v.url # <<>>
                /\ UrlContains(v.url, UrlShape(v.platform))

----------------------------------------------------------------------------
(* The orders in which the three fetch tasks of a request can end.         *)
CompletionOrders ==
    {o \in [1..Len(TaskOrder) -> Platforms] : \A i, j \in 1..Len(TaskOrder) : o[i] = o[j] => i = j}

(* C19: for the results the three fetch tasks ended with, the list the     *)
(* aggregator returns is the one it would return for every other order of  *)
(* completion of the tasks.                                                *)
C19_CompletionOrderIrrelevant ==
    (Answered /\ Unfiltered /\ response.status = 200) =>
        \A o \in CompletionOrders :
            Aggregate(gather(o), agg_limit).videos = response.videos

(* An answered unfiltered request whose tasks did not end in the order     *)
(* they were launched in, and whose response holds records of different    *)
(* platforms with equal scores.                                            *)
C19_Witness ==
    /\ Answered /\ Unfiltered /\ response.status = 200
    /\ completed # TaskOrder
    /\ Len(completed) = Len(TaskOrder)
    /\ \E i, j \in 1..Len(response.videos) :
          /\ response.videos[i].platform # response.videos[j].platform
          /\ response.videos[i].viral_score = response.videos[j].viral_score

----------------------------------------------------------------------------
(* GET /api/videos when a live call may never return.  The fetchers make   *)
(* their live calls, trending_request.execute() and                        *)
(* client.search_recent_tweets(...), synchronously and without a timeout   *)
(* or asyncio.wait_for around them.                                        *)

(* The platforms whose fetcher makes a live call.                          *)
LivePlatforms == {"youtube", "twitter"}

(* The live call of a fetch coroutine is made and does not return.         *)
LiveCallStalls ==
    /\ pc = "fetching"
    /\ LoopFree
    /\ \E p \in LivePlatforms :
        /\ tasks[p].state = "pending"
        /\ tasks' = [tasks EXCEPT ![p] =
                       [state |-> "stalled", count |-> tasks[p].count,
                        live |-> [kind |-> "stalled", items |-> <<>>], result |-> <<>>]]
    /\ UNCHANGED <<pc, request, seed, limit, agg_limit, calls, completed, response,
                   scoreVars, mockVars, adVars, fetchVars, payVars, durVars, tgVars, apiVars, subVars>>

NextLive ==
    \/ ReceiveRequest
    \/ FetchYouTube
    \/ FetchTikTok
    \/ FetchTwitter
    \/ TaskRaises
    \/ LiveCallStalls
    \/ RespondFiltered
    \/ RespondAggregated

(* The event loop runs every coroutine that is ready.                      *)
SpecLive == Init /\ [][NextLive]_vars /\ WF_vars(NextLive)

(* C20 as stated: every request (here with a limit >= 1) is eventually     *)
(* answered, also when a live call of one platform never returns.          *)
C20_Original_EventuallyResponds ==
    (pc = "fetching" /\ request.limit >= 1) ~> (pc = "done")

----------------------------------------------------------------------------
(* C21 as stated: a GET /api/videos without credentials is served as the   *)
(* free tier in every server variant: the response has user_tier "free"    *)
(* and has_ads true. No request to these four servers carries credentials. *)
C21_Original_AnonymousIsFreeWithAds ==
    (MockAnswered /\ mock_request.token = 0 /\ mock_response.status = 200) =>
        /\ mock_response.user_tier = "free"
        /\ mock_response.has_ads = TRUE

----------------------------------------------------------------------------
(* C22 as stated: in BULLETPROOF_SERVER.py and MULTI_PLATFORM_SERVER.py a  *)
(* request with platform=P, P one of youtube, tiktok, twitter, returns     *)
(* only records whose platform is P.                                       *)
C22_Original_MockPlatformFilter ==
    (/\ variant \in {"BULLETPROOF_SERVER", "MULTI_PLATFORM_SERVER"}
     /\ mock_request.platform \in Platforms
     /\ mock_response.status = 200) =>
        \A i \in 1..Len(mock_response.videos) :
            mock_response.videos[i].platform = mock_request.platform

----------------------------------------------------------------------------
(* What the three fetchers returned, in the order of the task list; a task *)
(* that raised contributes nothing.                                        *)
Concatenated ==
    (IF tasks["youtube"].state = "returned" THEN tasks["youtube"].result ELSE <<>>)
    \o (IF tasks["tiktok"].state = "returned" THEN tasks["tiktok"].result ELSE <<>>)
    \o (IF tasks["twitter"].state = "returned" THEN tasks["twitter"].result ELSE <<>>)

(* How many times x occurs in s.                                           *)
Occurrences(s, x) == Cardinality({i \in 1..Len(s) : s[i] = x})

(* kept is a choice of the highest-scored records of all: no record occurs *)
(* more often than in all, and every record of all that scores above the   *)
(* last one kept is kept in full number.                                   *)
TopOf(kept, all) ==
    /\ \A i \in 1..Len(kept) : Occurrences(kept, kept[i]) <= Occurrences(all, kept[i])
    /\ (kept # <<>> /\ Len(kept) < Len(all)) =>
          \A i \in 1..Len(all) :
              all[i].viral_score > kept[Len(kept)].viral_score =>
                  Occurrences(kept, all[i]) = Occurrences(all, all[i])

----------------------------------------------------------------------------
(* Claims about inject_video_ads, checked under SpecAds.                   *)

AdsInjected == ad_user # "none"

(* Where video number m stands once an advertisement follows every third   *)
(* video.                                                                  *)
PlaceOfVideo(m) == m + (m - 1) \div 3

(* C24: inject_video_ads on n videos gives a user whose tier is not FREE   *)
(* exactly the n videos in their order and no advertisement entry; for a   *)
(* FREE or anonymous user the videos keep their order and one              *)
(* advertisement entry stands immediately after video number 3k for each   *)
(* k >= 1 with 3k < n, never after the last video, never two in a row.     *)
C24_AdAfterEveryThirdVideo ==
    AdsInjected =>
        LET n == Len(ad_videos)
        IN  IF TierOf(ad_user) # "free"
            THEN /\ Len(ad_content) = n
                 /\ \A m \in 1..n : ad_content[m] = video_to_dict(ad_videos[m])
            ELSE /\ Len(ad_content) = n + Cardinality({k \in 1..n : 3 * k < n})
                 /\ \A m \in 1..n :
                       ad_content[PlaceOfVideo(m)] = video_to_dict(ad_videos[m])
                 /\ \A k \in 1..n : 3 * k < n =>
                       ad_content[PlaceOfVideo(3 * k) + 1].type = "advertisement"
                 /\ ad_content # <<>> =>
                       ad_content[Len(ad_content)].type = "video"
                 /\ \A j \in 1..(Len(ad_content) - 1) :
                       ~(/\ ad_content[j].type = "advertisement"
                         /\ ad_content[j + 1].type = "advertisement")

(* A free or anonymous user's feed of 6 or 9 videos: an advertisement      *)
(* after the third, none after the last.                                   *)
C24_Witness ==
    /\ AdsInjected
    /\ TierOf(ad_user) = "free"
    /\ Len(ad_videos) \in {6, 9}
    /\ ad_content[4].type = "advertisement"
    /\ Len(ad_content) = Len(ad_videos) + Len(ad_videos) \div 3 - 1

----------------------------------------------------------------------------
(* PaymentService.create_payment_intent of backend/payments.py.            *)

MaxTransactions == 2

(* What get_plan(request_data.subscription_tier) can give: None, or a      *)
(* plan with its prices (in cents).                                        *)
PaymentPlans ==
    {NoPlan,
     [tier |-> "free", price_monthly |-> 0, price_yearly |-> 0],
     [tier |-> "pro", price_monthly |-> 999, price_yearly |-> 9999],
     [tier |-> "business", price_monthly |-> 2999, price_yearly |-> 29999]}

(* The body of the try block: the plan test and its raise, the amount,     *)
(* insert_one (which raises when the database is down), the return.        *)
payment_try(plan, billing_cycle, db_up) ==
    IF plan = NoPlan
    THEN [raised |-> TRUE, status |-> 400, detail |-> "Invalid subscription tier",
          amount |-> 0]
    ELSE IF ~db_up
    THEN [raised |-> TRUE, status |-> 0, detail |-> "insert_one failed", amount |-> 0]
    ELSE [raised |-> FALSE, status |-> 200, detail |-> "",
          amount |-> IF billing_cycle = "yearly" THEN plan.price_yearly
                     ELSE plan.price_monthly]

(* try: ... except Exception as e: raise HTTPException(status_code=500,    *)
(* detail=f"Error creating payment: {str(e)}"). HTTPException is an        *)
(* Exception, so the except clause also takes the one raised in the try.   *)
create_payment_intent(plan, billing_cycle, db_up) ==
    LET out == payment_try(plan, billing_cycle, db_up)
    IN  IF out.raised
        THEN [status |-> 500, detail |-> "Error creating payment", amount |-> 0]
        ELSE [status |-> out.status, detail |-> out.detail, amount |-> out.amount]

(* One call of create_payment_intent.                                      *)
CreatePaymentIntent ==
    /\ \E plan \in PaymentPlans, billing_cycle \in {"monthly", "yearly"}, db_up \in BOOLEAN :
        LET out == create_payment_intent(plan, billing_cycle, db_up)
        IN  /\ out.status = 200 => Len(payment_transactions) < MaxTransactions
            /\ pay_request' = [plan |-> plan, billing_cycle |-> billing_cycle,
                               db_up |-> db_up, before |-> Len(payment_transactions)]
            /\ pay_response' = out
            /\ payment_transactions' =
                  IF out.status = 200
                  THEN Append(payment_transactions,
                              [amount |-> out.amount, subscription_tier |-> plan.tier,
                               status |-> "pending"])
                  ELSE payment_transactions
    /\ UNCHANGED <<scoreVars, reqVars, mockVars, adVars, fetchVars, durVars, tgVars, apiVars, subVars>>

SpecPay == Init /\ [][CreatePaymentIntent]_vars

(* C25 as stated: create_payment_intent with a subscription tier for which *)
(* no plan exists fails with HTTP 400 "Invalid subscription tier" and      *)
(* inserts no payment transaction; only unexpected failures yield 500.     *)
C25_Original_UnknownTierIs400 ==
    (pay_response.status # 0 /\ pay_request.plan = NoPlan) =>
        /\ pay_response.status = 400
        /\ pay_response.detail = "Invalid subscription tier"
        /\ Len(payment_transactions) = pay_request.before

----------------------------------------------------------------------------
(* VideoAggregator.parse_duration of backend/server.py. Strings are        *)
(* sequences of characters.                                                *)

MaxDurationLen == 5

DurationChars == {"P", "T", "H", "M", "S", "0", "1", "9"}

DurationInputs == UNION {[1..n -> DurationChars] : n \in 0..MaxDurationLen}

Digit == <<"0", "1", "2", "3", "4", "5", "6", "7", "8", "9">>

IsDigit(c) == \E d \in 1..10 : Digit[d] = c

(* int() of one digit character.                                           *)
DigitValue(c) == (CHOOSE d \in 1..10 : Digit[d] = c) - 1

(* \d+ from position p of s, greedy: the position after the last digit.    *)
RECURSIVE DigitsEnd(_, _)
DigitsEnd(s, p) ==
    IF p <= Len(s) /\ IsDigit(s[p]) THEN DigitsEnd(s, p + 1) ELSE p

(* int() of the digits s[p..q-1], on top of the value acc read so far.     *)
RECURSIVE IntOf(_, _, _, _)
IntOf(s, p, q, acc) ==
    IF p >= q THEN acc ELSE IntOf(s, p + 1, q, acc * 10 + DigitValue(s[p]))

(* (?:(\d+)X)? at position p: the group's value and the position after     *)
(* it, or no group (None, read as 0) and the same position.                *)
OptionalGroup(s, p, letter) ==
    LET q == DigitsEnd(s, p)
    IN  IF q > p /\ q <= Len(s) /\ s[q] = letter
        THEN [value |-> IntOf(s, p, q, 0), next |-> q + 1]
        ELSE [value |-> 0, next |-> p]

(* f"{n}": the decimal digits of n >= 0.                                   *)
RECURSIVE Decimal(_)
Decimal(n) ==
    IF n < 10 THEN <<Digit[n + 1]>> ELSE Decimal(n \div 10) \o <<Digit[(n % 10) + 1]>>

(* f"{n:02d}": at least two digits, padded with a zero.                    *)
Decimal02(n) == IF n < 10 THEN <<"0">> \o Decimal(n) ELSE Decimal(n)

(* parse_duration(duration)                                                *)
parse_duration(s) ==
    IF s = <<>> THEN <<"0", ":", "0", "0">>
    ELSE IF ~(Len(s) >= 2 /\ s[1] = "P" /\ s[2] = "T") THEN <<"0", ":", "0", "0">>
    ELSE LET h == OptionalGroup(s, 3, "H")
             m == OptionalGroup(s, h.next, "M")
             sec == OptionalGroup(s, m.next, "S")
         IN  IF h.value > 0
             THEN Decimal(h.value) \o <<":">> \o Decimal02(m.value)
                      \o <<":">> \o Decimal02(sec.value)
             ELSE Decimal(m.value) \o <<":">> \o Decimal02(sec.value)

(* One call of parse_duration.                                             *)
ParseDuration ==
    /\ duration_display = <<"?">>
    /\ \E s \in DurationInputs :
        /\ duration' = s
        /\ duration_display' = parse_duration(s)
    /\ UNCHANGED <<scoreVars, reqVars, mockVars, adVars, fetchVars, payVars, tgVars, apiVars, subVars>>

SpecDuration == Init /\ [][ParseDuration]_vars

(* The characters of s from the p-th on are DD with DD in 00..59.          *)
TwoDigitField(s, p) ==
    /\ Len(s) >= p + 1
    /\ IsDigit(s[p]) /\ IsDigit(s[p + 1])
    /\ DigitValue(s[p]) <= 5

(* s is M:SS or H:MM:SS: digits, then one or two fields ":DD", DD in       *)
(* 00..59, and nothing else.                                               *)
DisplayForm(s) ==
    LET q == DigitsEnd(s, 1)
    IN  /\ q > 1
        /\ q <= Len(s) /\ s[q] = ":"
        /\ TwoDigitField(s, q + 1)
        /\ \/ Len(s) = q + 2
           \/ /\ Len(s) = q + 5
              /\ s[q + 3] = ":"
              /\ TwoDigitField(s, q + 4)

(* s is in the PT..H..M..S encoding: PT, then the optional groups, then    *)
(* the end of the string.                                                  *)
InEncoding(s) ==
    /\ Len(s) >= 2 /\ s[1] = "P" /\ s[2] = "T"
    /\ OptionalGroup(s, OptionalGroup(s, OptionalGroup(s, 3, "H").next, "M").next,
                     "S").next = Len(s) + 1

(* C26 as stated: for every input string parse_duration returns a display  *)
(* string of the form M:SS or H:MM:SS whose seconds field (and minutes     *)
(* field when hours are present) is two digits in 00..59; the empty string *)
(* and any string not in the PT..H..M..S encoding yield "0:00".            *)
C26_Original_DisplayForm ==
    duration_display # <<"?">> =>
        /\ DisplayForm(duration_display)
        /\ ~InEncoding(duration) => duration_display = <<"0", ":", "0", "0">>

----------------------------------------------------------------------------
(* C27 as stated: in server_enhanced, for every integer limit, GET         *)
(* /api/videos returns at most 15 records to a caller without credentials  *)
(* (free tier) and at most 25 records to a pro-tier caller; only the       *)
(* business tier is uncapped.                                              *)
C27_Original_EnhancedTierCaps ==
    variant = "server_enhanced" =>
        /\ mock_request.token = 0 =>
              /\ mock_response.user_tier = "free"
              /\ Len(mock_response.videos) <= 15
        /\ mock_response.user_tier = "pro" => Len(mock_response.videos) <= 25

----------------------------------------------------------------------------
(* TelegramNotificationService of backend/telegram_service.py: the         *)
(* messages of one chat are handled in the order they arrive, the handlers *)
(* of different chats interleave at their awaits. A text is the sequence   *)
(* of its pieces; <<>> is a message without text.                          *)

SubscribeText == <<"/", "subscribe">>
UnsubscribeText == <<"/", "un", "subscribe">>

TelegramTexts ==
    {SubscribeText, UnsubscribeText, <<"/", "start">>, <<"/", "help">>,
     <<"/", "digest">>, <<"hello">>, <<>>}

(* text.startswith(prefix)                                                 *)
StartsWith(text, prefix) ==
    /\ Len(text) >= Len(prefix)
    /\ SubSeq(text, 1, Len(prefix)) = prefix

(* update_one with the same $set but without upsert=True: a chat without a *)
(* document gets none.                                                     *)
update_one_no_upsert(subscriptions, chat_id, subscribed) ==
    IF subscriptions[chat_id] = NoDocument THEN subscriptions
    ELSE [subscriptions EXCEPT ![chat_id] = [chat_id |-> chat_id, subscribed |-> subscribed]]

(* db.telegram_subscriptions.update_one({"chat_id": chat_id},              *)
(* {"$set": {..., "subscribed": subscribed, ...}}, upsert=True)            *)
update_one(subscriptions, chat_id, subscribed) ==
    [subscriptions EXCEPT ![chat_id] = [chat_id |-> chat_id, subscribed |-> subscribed]]

(* get_subscribed_users(): find({"subscribed": True}), the chat ids.       *)
get_subscribed_users ==
    {telegram_subscriptions[c].chat_id :
        c \in {d \in Chats : /\ telegram_subscriptions[d] # NoDocument
                              /\ telegram_subscriptions[d].subscribed}}

(* _handle_message up to the end of its first await, _log_message.         *)
ReceiveMessage ==
    /\ \E c \in Chats, text \in TelegramTexts :
        /\ tg_handler[c].pc = "idle"
        /\ tg_handler' = [tg_handler EXCEPT ![c] = [pc |-> "logged", text |-> text]]
        /\ tg_last' = [tg_last EXCEPT ![c] =
                          IF text = SubscribeText THEN "subscribe"
                          ELSE IF text = UnsubscribeText THEN "unsubscribe"
                          ELSE @]
    /\ UNCHANGED <<telegram_subscriptions, scoreVars, reqVars, mockVars, adVars,
                   fetchVars, payVars, durVars, apiVars, subVars>>

(* if not text: return; else the chain of startswith tests and, in the     *)
(* /subscribe and /unsubscribe handlers, the database update.              *)
HandleCommand ==
    /\ \E c \in Chats :
        LET text == tg_handler[c].text
        IN  /\ tg_handler[c].pc = "logged"
            /\ tg_handler' = [tg_handler EXCEPT ![c].pc =
                                 IF text = <<>> THEN "idle" ELSE "replying"]
            /\ telegram_subscriptions' =
                  IF text = <<>> THEN telegram_subscriptions
                  ELSE IF StartsWith(text, <<"/", "start">>) THEN telegram_subscriptions
                  ELSE IF StartsWith(text, <<"/", "help">>) THEN telegram_subscriptions
                  ELSE IF StartsWith(text, <<"/", "digest">>) THEN telegram_subscriptions
                  ELSE IF StartsWith(text, <<"/", "subscribe">>)
                       THEN update_one(telegram_subscriptions, c, TRUE)
                  ELSE IF StartsWith(text, <<"/", "un", "subscribe">>)
                       THEN update_one(telegram_subscriptions, c, FALSE)
                  ELSE telegram_subscriptions
    /\ UNCHANGED <<tg_last, scoreVars, reqVars, mockVars, adVars, fetchVars, payVars,
                   durVars, apiVars, subVars>>

(* await self.bot.send_message(...): the reply is sent or the call raises, *)
(* and handle_webhook_update returns.                                      *)
SendReply ==
    /\ \E c \in Chats :
        /\ tg_handler[c].pc = "replying"
        /\ tg_handler' = [tg_handler EXCEPT ![c].pc = "idle"]
    /\ UNCHANGED <<telegram_subscriptions, tg_last, scoreVars, reqVars, mockVars, adVars,
                   fetchVars, payVars, durVars, apiVars, subVars>>

NextTelegram ==
    \/ ReceiveMessage
    \/ HandleCommand
    \/ SendReply

SpecTelegram == Init /\ [][NextTelegram]_vars

(* C28: whatever /subscribe and /unsubscribe messages the chats sent,      *)
(* once a chat's message has been through its database update              *)
(* get_subscribed_users contains the chat id if and only if the last of    *)
(* the two commands received from that chat was /subscribe; a repeated     *)
(* /subscribe changes nothing and another chat's commands do not count.    *)
C28_SubscribedIffLastWasSubscribe ==
    \A c \in Chats :
        tg_handler[c].pc # "logged" =>
            (c \in get_subscribed_users <=> tg_last[c] = "subscribe")

(* Chat 1 subscribed and is subscribing again, after chat 2 subscribed and *)
(* then unsubscribed.                                                      *)
C28_Witness ==
    /\ get_subscribed_users = {1}
    /\ tg_handler[1] = [pc |-> "replying", text |-> SubscribeText]
    /\ tg_last[2] = "unsubscribe"
    /\ telegram_subscriptions[2] # NoDocument
    /\ tg_handler[2].pc = "idle"

----------------------------------------------------------------------------
(* TikTokService.initialize and the head of fetch_trending_videos of       *)
(* backend/tiktok_service.py, for coroutines that share one service        *)
(* object and interleave at their awaits.                                  *)

(* fetch_trending_videos up to its first await: if not self.api, the call  *)
(* enters initialize, where TikTokApi() raises (initialize returns False,  *)
(* the call returns fallback data) or self.api is assigned and             *)
(* create_sessions is awaited; otherwise the call goes on to the API.      *)
StartFetchTrending ==
    /\ \E c \in ApiCallers :
        /\ api_call[c] = "idle"
        /\ \/ /\ api = "none"
              /\ \/ /\ api' = "created"
                    /\ api_call' = [api_call EXCEPT ![c] = "create_sessions"]
                 \/ /\ api' = api
                    /\ api_call' = [api_call EXCEPT ![c] = "fallback"]
           \/ /\ api # "none"
              /\ api' = api
              /\ api_call' = [api_call EXCEPT ![c] = "trending"]
    /\ UNCHANGED <<api_used, scoreVars, reqVars, mockVars, adVars, fetchVars, payVars,
                   durVars, tgVars, subVars>>

(* await self.api.create_sessions(...) ends: initialize returns True, or   *)
(* the call raised and initialize returns False, leaving self.api as it is.*)
CreateSessions ==
    /\ \E c \in ApiCallers :
        /\ api_call[c] = "create_sessions"
        /\ \/ /\ api' = "ready"
              /\ api_call' = [api_call EXCEPT ![c] = "trending"]
           \/ /\ api' = api
              /\ api_call' = [api_call EXCEPT ![c] = "fallback"]
    /\ UNCHANGED <<api_used, scoreVars, reqVars, mockVars, adVars, fetchVars, payVars,
                   durVars, tgVars, subVars>>

(* async for video in self.api.trending.videos(count=limit)                *)
TrendingVideos ==
    /\ \E c \in ApiCallers :
        /\ api_call[c] = "trending"
        /\ api_used' = [api_used EXCEPT ![c] = api]
        /\ api_call' = [api_call EXCEPT ![c] = "returned"]
    /\ UNCHANGED <<api, scoreVars, reqVars, mockVars, adVars, fetchVars, payVars,
                   durVars, tgVars, subVars>>

(* The call returns its videos or the fallback data; the caller may call   *)
(* again.                                                                  *)
ReturnVideos ==
    /\ \E c \in ApiCallers :
        /\ api_call[c] \in {"returned", "fallback"}
        /\ api_call' = [api_call EXCEPT ![c] = "idle"]
    /\ UNCHANGED <<api, api_used, scoreVars, reqVars, mockVars, adVars, fetchVars, payVars,
                   durVars, tgVars, subVars>>

NextTikTokInit ==
    \/ StartFetchTrending
    \/ CreateSessions
    \/ TrendingVideos
    \/ ReturnVideos

SpecTikTokInit == Init /\ [][NextTikTokInit]_vars

(* C29 as stated: fetch_trending_videos calls self.api.trending.videos     *)
(* only after some initialize() call has completed and returned True, also *)
(* after a failed initialization and while another call is still inside    *)
(* initialize().                                                           *)
C29_Original_ApiUsedOnlyWhenReady ==
    \A c \in ApiCallers : api_used[c] \in {"unused", "ready"}

----------------------------------------------------------------------------
(* subscribe_to_emails of backend/server.py (POST /api/emails/subscribe),  *)
(* for requests whose handlers interleave at their awaits.                 *)

RequestNames == {"", "Ann"}

(* The places of the documents of db.users that match {"email": e}.        *)
Matching(e) == {i \in DOMAIN db_users : db_users[i].email = e}

(* db.users.find_one({"email": e}): the first matching document, or None.  *)
find_one(e) ==
    IF Matching(e) = {} THEN NoUser
    ELSE db_users[CHOOSE i \in Matching(e) : \A j \in Matching(e) : i <= j]

(* db.users.update_one({"email": e}, {"$set": ...}): the first matching    *)
(* document gets both flags and the name; nothing happens without a match. *)
users_update_one(e, name) ==
    IF Matching(e) = {} THEN db_users
    ELSE LET i == CHOOSE k \in Matching(e) : \A j \in Matching(e) : k <= j
         IN  [db_users EXCEPT ![i] =
                 [@ EXCEPT !.daily_email_enabled = TRUE,
                           !.email_notifications_enabled = TRUE,
                           !.name = name]]

(* User(email=..., name=request.name or "Viral Video Fan", ...).dict()     *)
new_user(e, name) ==
    [email |-> e, name |-> IF name = "" THEN "Viral Video Fan" ELSE name,
     daily_email_enabled |-> TRUE, email_notifications_enabled |-> TRUE]

(* A request arrives with its body.                                        *)
PostSubscribe ==
    /\ \E r \in EmailRequests, e \in Emails, name \in RequestNames :
        /\ sub_request[r].at = "new"
        /\ sub_request' = [sub_request EXCEPT ![r] =
                              [email |-> e, name |-> name, at |-> "find_one"]]
    /\ UNCHANGED <<db_users, sub_user_data, scoreVars, reqVars, mockVars, adVars,
                   fetchVars, payVars, durVars, tgVars, apiVars>>

(* user_data = await db.users.find_one({"email": request.email})           *)
FindUser ==
    /\ \E r \in EmailRequests :
        /\ sub_request[r].at = "find_one"
        /\ sub_user_data' = [sub_user_data EXCEPT ![r] = find_one(sub_request[r].email)]
        /\ sub_request' = [sub_request EXCEPT ![r].at = "write"]
    /\ UNCHANGED <<db_users, scoreVars, reqVars, mockVars, adVars, fetchVars, payVars,
                   durVars, tgVars, apiVars>>

(* if user_data: update_one(...) else: insert_one(new_user.dict()); then   *)
(* the success response.                                                   *)
WriteUser ==
    /\ \E r \in EmailRequests :
        /\ sub_request[r].at = "write"
        /\ db_users' =
              IF sub_user_data[r] # NoUser
              THEN users_update_one(sub_request[r].email,
                                    IF sub_request[r].name = ""
                                    THEN sub_user_data[r].name
                                    ELSE sub_request[r].name)
              ELSE Append(db_users, new_user(sub_request[r].email, sub_request[r].name))
        /\ sub_request' = [sub_request EXCEPT ![r].at = "success"]
    /\ UNCHANGED <<sub_user_data, scoreVars, reqVars, mockVars, adVars, fetchVars, payVars,
                   durVars, tgVars, apiVars>>

NextSubscribe ==
    \/ PostSubscribe
    \/ FindUser
    \/ WriteUser

SpecSubscribe == Init /\ [][NextSubscribe]_vars

(* C30 as stated: after any interleaving of POST /api/emails/subscribe     *)
(* requests for the same address, db.users holds at most one record for    *)
(* that address, and that record has both email flags set.                 *)
C30_Original_OneRecordPerEmail ==
    \A e \in Emails :
        /\ Cardinality(Matching(e)) <= 1
        /\ \A i \in Matching(e) :
              db_users[i].daily_email_enabled /\ db_users[i].email_notifications_enabled

====
